---- MODULE Spec2Model ----
(***************************************************************************)
(* A model of the stack-based bytecode virtual machine of src/src/lib.rs.  *)
(* The state is the VirtualMachine struct (stack, stack_pointer,           *)
(* program_counter, exit_code, should_exit), the outcome of run(), the     *)
(* standard output written so far, and the build's overflow-check setting. *)
(* One action models one iteration of the loop of run() for one arm of the *)
(* dispatch in execute_instruction.                                        *)
(***************************************************************************)
EXTENDS Integers, Sequences, FiniteSets, TLC

(***************************************************************************)
(* 32-bit values.  Every u32 and i32 of the program is kept as the i32     *)
(* with the same 32 bits, so that all values stay within -2^31 .. 2^31-1;  *)
(* `x as i32` and `x as u32` keep the bits, and the operators below say    *)
(* which reading (signed or unsigned) an operation uses.                   *)
(***************************************************************************)
MemSize == 4096

MaxI32 == 2147483647

MinI32 == (0 - MaxI32) - 1

Pow2(k) == 2 ^ k

\* the 32-bit value with upper half hi and lower half lo (0 .. 65535 each)
W(hi, lo) == IF hi >= 32768 THEN (hi - 65536) * 65536 + lo ELSE hi * 65536 + lo

\* bits 30..0 of w, as a natural
Low31(w) == IF w < 0 THEN (w + MaxI32) + 1 ELSE w

\* u32 >> k for 0 <= k <= 31
Lsr32(w, k) ==
    IF k = 0 THEN w
    ELSE IF k = 31 THEN (IF w < 0 THEN 1 ELSE 0)
    ELSE (Low31(w) \div Pow2(k)) + (IF w < 0 THEN Pow2(31 - k) ELSE 0)

\* i32 >> k for 0 <= k <= 31 (sign-propagating)
Asr32(w, k) ==
    IF k = 31 THEN (IF w < 0 THEN 0 - 1 ELSE 0) ELSE w \div Pow2(k)

\* the n low bits of w as a natural, 0 <= n <= 31
LowBits(w, n) == IF n = 31 THEN Low31(w) ELSE Low31(w) % Pow2(n)

\* u32/i32 << k for 0 <= k <= 31: the bits shifted out are lost
Shl32(w, k) ==
    IF k = 0 THEN w
    ELSE IF k = 31 THEN (IF Low31(w) % 2 = 1 THEN MinI32 ELSE 0)
    ELSE LET kept == LowBits(w, 32 - k)
         IN ((kept % Pow2(31 - k)) * Pow2(k))
              + (IF kept \div Pow2(31 - k) = 1 THEN MinI32 ELSE 0)

\* the n-bit field of w starting at bit lo, as a natural (n <= 31)
Field(w, lo, n) == LowBits(Lsr32(w, lo), n)

\* the n-bit field of w starting at bit lo, sign-extended (n <= 31)
SField(w, lo, n) ==
    IF Field(w, lo, n) >= Pow2(n - 1) THEN Field(w, lo, n) - Pow2(n) ELSE Field(w, lo, n)

\* unsigned comparison of two 32-bit values
ULt(a, b) == IF (a < 0) = (b < 0) THEN a < b ELSE b < 0

FitsAdd(a, b) ==
    /\ ~(a >= 0 /\ b >= 0 /\ a > MaxI32 - b)
    /\ ~(a < 0 /\ b < 0 /\ a < MinI32 - b)

\* a + b reduced modulo 2^32
WrapAdd(a, b) ==
    IF a >= 0 /\ b >= 0 /\ a > MaxI32 - b THEN (a + MinI32) + (b + MinI32)
    ELSE IF a < 0 /\ b < 0 /\ a < MinI32 - b THEN ((a + MaxI32) + 1) + ((b + MaxI32) + 1)
    ELSE a + b

FitsSub(a, b) ==
    /\ ~(b < 0 /\ a > MaxI32 + b)
    /\ ~(b > 0 /\ a < MinI32 + b)

\* a - b reduced modulo 2^32
WrapSub(a, b) ==
    IF b < 0 /\ a > MaxI32 + b THEN (a + MinI32) - ((b + MaxI32) + 1)
    ELSE IF b > 0 /\ a < MinI32 + b THEN ((a + MaxI32) + 1) - (b + MinI32)
    ELSE a - b

Abs(x) == IF x < 0 THEN 0 - x ELSE x

FitsMul(a, b) ==
    IF a = 0 \/ b = 0 THEN TRUE
    ELSE IF a = MinI32 THEN b = 1
    ELSE IF b = MinI32 THEN a = 1
    ELSE IF (a < 0) = (b < 0) THEN Abs(a) <= MaxI32 \div Abs(b)
    ELSE IF Abs(b) = 1 THEN TRUE
    ELSE Abs(a) <= (MaxI32 \div Abs(b)) + (IF MaxI32 % Abs(b) = Abs(b) - 1 THEN 1 ELSE 0)

RECURSIVE MulBits(_, _, _)
\* sum of (a << i) over the set bits i >= k of b, modulo 2^32
MulBits(a, b, k) ==
    IF k = 32 THEN 0
    ELSE WrapAdd(IF Field(b, k, 1) = 1 THEN Shl32(a, k) ELSE 0, MulBits(a, b, k + 1))

\* a * b reduced modulo 2^32
WrapMul(a, b) == MulBits(a, b, 0)

RECURSIVE BitOp(_, _, _, _)
\* bitwise combination of the low k bits of the naturals a and b
BitOp(op, a, b, k) ==
    IF k = 0 THEN 0
    ELSE LET bit == CASE op = "and" -> IF a % 2 = 1 /\ b % 2 = 1 THEN 1 ELSE 0
                      [] op = "or"  -> IF a % 2 = 1 \/ b % 2 = 1 THEN 1 ELSE 0
                      [] op = "xor" -> IF (a % 2) # (b % 2) THEN 1 ELSE 0
         IN bit + 2 * BitOp(op, a \div 2, b \div 2, k - 1)

Bits32(op, a, b) ==
    BitOp(op, Low31(a), Low31(b), 31)
      + (IF BitOp(op, IF a < 0 THEN 1 ELSE 0, IF b < 0 THEN 1 ELSE 0, 1) = 1 THEN MinI32 ELSE 0)

\* Rust's integer division truncates toward zero (b # 0, not MinI32 / -1)
TruncDiv(a, b) ==
    IF b = MinI32 THEN (IF a = MinI32 THEN 1 ELSE 0)
    ELSE IF b = 1 THEN a
    ELSE IF a = MinI32
         THEN (IF b > 0 THEN 0 - ((MaxI32 \div b) + (IF MaxI32 % b = b - 1 THEN 1 ELSE 0))
               ELSE (MaxI32 \div Abs(b)) + (IF MaxI32 % Abs(b) = Abs(b) - 1 THEN 1 ELSE 0))
    ELSE IF (a < 0) = (b < 0) THEN Abs(a) \div Abs(b)
    ELSE 0 - (Abs(a) \div Abs(b))

TruncRem(a, b) ==
    IF b = MinI32 THEN (IF a = MinI32 THEN 0 ELSE a)
    ELSE a - b * TruncDiv(a, b)

\* big-endian bytes of an i32: n.to_be_bytes()
to_be_bytes(n) == << Field(n, 24, 8), Field(n, 16, 8), Field(n, 8, 8), Field(n, 0, 8) >>

\* little-endian bytes of a 32-bit word, as the image file stores instructions
LeBytes(w) == << Field(w, 0, 8), Field(w, 8, 8), Field(w, 16, 8), Field(w, 24, 8) >>

\* the 32-bit value whose bytes are b3 (bits 31..24), b2, b1, b0 (bits 7..0)
FromBytes(b3, b2, b1, b0) ==
    ((IF b3 >= 128 THEN b3 - 256 ELSE b3) * 16777216) + (b2 * 65536) + (b1 * 256) + b0

VARIABLES
    stack,            \* Vec<u8>: the 4096 bytes of memory, indexed 0..4095
    stack_pointer,    \* i32
    program_counter,  \* i32
    exit_code,        \* i32
    should_exit,      \* bool
    status,           \* outcome of run(): "running", "halted" (Ok), "error" (Err), "panic"
    error,            \* the Err message returned by run(), "" while there is none
    stdout,           \* bytes written to standard output so far
    overflow_checks,  \* the build: TRUE panics on integer overflow, FALSE wraps
    image,            \* the words of the loaded program image (history)
    call_log,         \* the calls executed so far: [p, s] = address and SP at the call (history)
    word_log,         \* the word-access primitives applied directly, in order (history)
    ipt               \* the line last read from standard input, << >> before any (history)

vars == << stack, stack_pointer, program_counter, exit_code, should_exit,
           status, error, stdout, overflow_checks, image, call_log, word_log, ipt >>

(***************************************************************************)
(* Image loader: VirtualMachine::build.  The payload of the file (after    *)
(* the magic header) is copied to the low end and zero-padded to 4096.     *)
(***************************************************************************)
build(words) ==
    [i \in 0 .. (MemSize - 1) |->
        IF (i \div 4) + 1 <= Len(words) THEN LeBytes(words[(i \div 4) + 1])[(i % 4) + 1] ELSE 0]

(***************************************************************************)
(* Word access layer.                                                      *)
(***************************************************************************)
\* get_next_instruction with the index reduced modulo the memory size
\* instead of checked: a negative counter then reads a word
get_next_instruction_wrapping(mem, pc) ==
    LET at == pc % MemSize
    IN IF at + 4 >= MemSize THEN [panic |-> TRUE, word |-> 0]
       ELSE [panic |-> FALSE,
             word |-> FromBytes(mem[at + 3], mem[at + 2], mem[at + 1], mem[at])]

\* get_next_instruction: [panic |-> TRUE] or the little-endian word at pc.
\* `program_counter as usize` sign-extends, so a negative counter is a huge
\* index; pc + 4 then overflows usize exactly when -4 <= program_counter < 0
\* (a panic with overflow checks, a wrap to 0..3 without).
get_next_instruction(mem, pc) ==
    LET wraps == pc < 0 /\ pc >= 0 - 4
        pc_out == pc < 0 \/ pc >= MemSize
        bound_out == IF pc < 0 THEN ~wraps ELSE pc + 4 >= MemSize
    IN IF wraps /\ overflow_checks THEN [panic |-> TRUE, word |-> 0]
       ELSE IF pc_out \/ bound_out THEN [panic |-> TRUE, word |-> 0]
       ELSE [panic |-> FALSE,
             word |-> FromBytes(mem[pc + 3], mem[pc + 2], mem[pc + 1], mem[pc])]

get_op_code(instruction) == Lsr32(instruction, 28)

\* The machine a handler works on, and the results a handler can produce.
Machine == [stack |-> stack, sp |-> stack_pointer, pc |-> program_counter,
            exit_code |-> exit_code, should_exit |-> should_exit, out |-> stdout]

Ok(m, v) == [m |-> m, res |-> "ok", err |-> "", val |-> v]

Err(m, msg) == [m |-> m, res |-> "err", err |-> msg, val |-> 0]

Panic(m) == [m |-> m, res |-> "panic", err |-> "", val |-> 0]

\* big-endian word at mem[start .. start+4)
BeWord(mem, start) == FromBytes(mem[start], mem[start + 1], mem[start + 2], mem[start + 3])

\* pop_int_from_stack with the shift of byte i taken as i * 8, not (3 - i) * 8
pop_int_little_endian(m) ==
    LET new_stack_pointer == m.sp + 4
    IN IF new_stack_pointer > 4096 THEN Err(m, "Failed to pop: stack is empty.")
       ELSE IF m.sp < 0 THEN Panic(m)
       ELSE Ok([m EXCEPT !.sp = new_stack_pointer],
               FromBytes(m.stack[m.sp + 3], m.stack[m.sp + 2], m.stack[m.sp + 1], m.stack[m.sp]))

pop_int_from_stack(m) ==
    LET new_stack_pointer == m.sp + 4
    IN IF new_stack_pointer > 4096 THEN Err(m, "Failed to pop: stack is empty.")
       ELSE IF m.sp < 0 THEN Panic(m)
       ELSE Ok([m EXCEPT !.sp = new_stack_pointer], BeWord(m.stack, m.sp))

push_int_onto_stack(m, n) ==
    LET new_stack_pointer == m.sp - 4
        bytes == to_be_bytes(n)
        start == new_stack_pointer
        end == start + 4
    IN IF new_stack_pointer < 0 THEN Err(m, "Out of memory.")
       ELSE IF end > MemSize THEN Panic(m)
       ELSE Ok([m EXCEPT !.stack = [m.stack EXCEPT ![start] = bytes[1],
                                                    ![start + 1] = bytes[2],
                                                    ![start + 2] = bytes[3],
                                                    ![start + 3] = bytes[4]],
                         !.sp = new_stack_pointer], 0)

\* `(stack_pointer + stack_offset) as usize` is a huge index when the sum is
\* negative; start + 4 overflows usize exactly when -4 <= sum < 0.
peek_int_from_stack(m, stack_offset) ==
    LET sum == m.sp + stack_offset
        wraps == sum < 0 /\ sum >= 0 - 4
        end_gt == IF sum < 0 THEN ~wraps ELSE sum + 4 > 4096
        start_gt == sum < 0 \/ sum > 4096
    IN IF wraps /\ overflow_checks THEN Panic(m)
       ELSE IF end_gt THEN Err(m, "Failed to peek: stack is empty")
       ELSE IF start_gt THEN Err(m, "Failed to peek: offset out of range")
       ELSE Ok(m, BeWord(m.stack, sum))

(***************************************************************************)
(* Instruction handlers.  Each takes the machine and the instruction word  *)
(* and gives the machine it leaves and Ok, Err(message) or a panic.        *)
(***************************************************************************)
\* exit keeping only the low byte of the instruction word as the code
exit_low_byte(m, instruction) ==
    Ok([m EXCEPT !.exit_code = Field(instruction, 0, 8), !.should_exit = TRUE], 0)

exit(m, instruction) ==
    Ok([m EXCEPT !.exit_code = instruction, !.should_exit = TRUE], 0)

\* Vec::swap of the bytes at indices a and b
SwapBytes(mem, a, b) == [mem EXCEPT ![a] = mem[b], ![b] = mem[a]]

\* swap with the offsets taken as byte offsets, without the scaling by 4
swap_unscaled(m, instruction) ==
    LET offset_from == SField(instruction, 12, 12)
        offset_to == SField(instruction, 0, 12)
        addr_from == m.sp + offset_from
        addr_to == m.sp + offset_to
        s0 == SwapBytes(m.stack, addr_from, addr_to)
        s1 == SwapBytes(s0, addr_from + 1, addr_to + 1)
        s2 == SwapBytes(s1, addr_from + 2, addr_to + 2)
        s3 == SwapBytes(s2, addr_from + 3, addr_to + 3)
    IN IF addr_from < 0 \/ addr_from + 4 > 4096 \/ addr_to < 0 \/ addr_to + 4 > 4096
       THEN Err(m, "swap: address out of bounds")
       ELSE Ok([m EXCEPT !.stack = s3], 0)

swap(m, instruction) ==
    LET signed_from == SField(instruction, 12, 12)
        signed_to == SField(instruction, 0, 12)
        offset_from == signed_from * 4
        offset_to == signed_to * 4
        addr_from == m.sp + offset_from
        addr_to == m.sp + offset_to
        s0 == SwapBytes(m.stack, addr_from, addr_to)
        s1 == SwapBytes(s0, addr_from + 1, addr_to + 1)
        s2 == SwapBytes(s1, addr_from + 2, addr_to + 2)
        s3 == SwapBytes(s2, addr_from + 3, addr_to + 3)
    IN IF addr_from < 0 \/ addr_from + 4 > 4096 \/ addr_to < 0 \/ addr_to + 4 > 4096
       THEN Err(m, "swap: address out of bounds")
       ELSE Ok([m EXCEPT !.stack = s3], 0)

push(m, instruction) ==
    LET push_value == SField(instruction, 0, 28)
    IN push_int_onto_stack(m, push_value)

\* pop without the test that the offset is a multiple of four
pop_unaligned(m, instruction) ==
    LET offset == Field(instruction, 0, 28)
        new_stack_pointer == m.sp + offset
    IN IF m.sp = 4096 THEN Ok(m, 0)
       ELSE IF new_stack_pointer > 4096 THEN Ok([m EXCEPT !.sp = 4096], 0)
       ELSE Ok([m EXCEPT !.sp = new_stack_pointer], 0)

\* pop without the clamp to the end of memory
pop_unclamped(m, instruction) ==
    LET offset == Field(instruction, 0, 28)
    IN IF offset % 4 # 0 THEN Err(m, "pop: Offset should be a multiple of four.")
       ELSE IF m.sp = 4096 THEN Ok(m, 0)
       ELSE Ok([m EXCEPT !.sp = m.sp + offset], 0)

\* pop testing for the empty stack before it tests the offset
pop_empty_first(m, instruction) ==
    LET offset == Field(instruction, 0, 28)
        new_stack_pointer == m.sp + offset
    IN IF m.sp = 4096 THEN Ok(m, 0)
       ELSE IF offset % 4 # 0 THEN Err(m, "pop: Offset should be a multiple of four.")
       ELSE IF new_stack_pointer > 4096 THEN Ok([m EXCEPT !.sp = 4096], 0)
       ELSE Ok([m EXCEPT !.sp = new_stack_pointer], 0)

pop(m, instruction) ==
    LET offset == Field(instruction, 0, 28)
        new_stack_pointer == m.sp + offset
    IN IF offset % 4 # 0 THEN Err(m, "pop: Offset should be a multiple of four.")
       ELSE IF m.sp = 4096 THEN Ok(m, 0)
       ELSE IF new_stack_pointer > 4096 THEN Ok([m EXCEPT !.sp = 4096], 0)
       ELSE Ok([m EXCEPT !.sp = new_stack_pointer], 0)

\* The match of binary_arithmetic on operands already popped: the result
\* [res |-> "ok", val], a panic, or "bad" for an unknown identifier.
\* Without overflow checks +, -, * wrap and a shift count is taken modulo 32.
Calculate(which_operation, left, right) ==
    LET val(v) == [res |-> "ok", val |-> v]
        panic == [res |-> "panic", val |-> 0]
        checked(fits, v) == IF ~fits /\ overflow_checks THEN panic ELSE val(v)
        count == right % 32
    IN CASE which_operation = 0 -> checked(FitsAdd(left, right), WrapAdd(left, right))
         [] which_operation = 1 -> checked(FitsSub(left, right), WrapSub(left, right))
         [] which_operation = 2 -> checked(FitsMul(left, right), WrapMul(left, right))
         [] which_operation = 3 ->
              IF left = MinI32 /\ right = 0 - 1 THEN panic ELSE val(TruncDiv(left, right))
         [] which_operation = 4 ->
              IF left = MinI32 /\ right = 0 - 1 THEN panic ELSE val(TruncRem(left, right))
         [] which_operation = 5 -> val(Bits32("and", left, right))
         [] which_operation = 6 -> val(Bits32("or", left, right))
         [] which_operation = 7 -> val(Bits32("xor", left, right))
         [] which_operation = 8 -> checked(right < 32, Shl32(left, count))
         [] which_operation = 9 -> checked(right < 32, Lsr32(left, count))
         [] which_operation = 11 -> checked(right < 32, Asr32(left, count))
         [] OTHER -> [res |-> "bad", val |-> 0]

\* binary_arithmetic with the zero check made for div only: a rem by zero
\* reaches the `%` and panics
binary_arithmetic_div_only(m, instruction) ==
    LET which_operation == Field(instruction, 24, 4)
        r1 == pop_int_from_stack(m)
        r2 == pop_int_from_stack(r1.m)
        popped_right == r1.val
        left == r2.val
        right == IF which_operation >= 8 /\ popped_right < 0
                 THEN LowBits(popped_right, 5) ELSE popped_right
        c == Calculate(which_operation, left, right)
    IN IF r1.res # "ok" THEN r1
       ELSE IF r2.res # "ok" THEN r2
       ELSE IF which_operation = 3 /\ popped_right = 0
            THEN Err(r2.m, "Attempt to divide by zero.")
       ELSE IF which_operation = 4 /\ popped_right = 0 THEN Panic(r2.m)
       ELSE IF c.res = "panic" THEN Panic(r2.m)
       ELSE IF c.res = "bad"
            THEN Err(r2.m, "Binary arithmetic instruction contained bad identifier.")
       ELSE push_int_onto_stack(r2.m, c.val)

\* binary_arithmetic with a negative shift count rejected instead of reduced
binary_arithmetic_negative_shift_err(m, instruction) ==
    LET which_operation == Field(instruction, 24, 4)
        r1 == pop_int_from_stack(m)
        r2 == pop_int_from_stack(r1.m)
        popped_right == r1.val
        left == r2.val
        c == Calculate(which_operation, left, popped_right)
    IN IF r1.res # "ok" THEN r1
       ELSE IF r2.res # "ok" THEN r2
       ELSE IF (which_operation = 3 \/ which_operation = 4) /\ popped_right = 0
            THEN Err(r2.m, "Attempt to divide by zero.")
       ELSE IF which_operation >= 8 /\ popped_right < 0
            THEN Err(r2.m, "Attempt to shift by a negative number.")
       ELSE IF c.res = "panic" THEN Panic(r2.m)
       ELSE IF c.res = "bad"
            THEN Err(r2.m, "Binary arithmetic instruction contained bad identifier.")
       ELSE push_int_onto_stack(r2.m, c.val)

binary_arithmetic(m, instruction) ==
    LET which_operation == Field(instruction, 24, 4)
        r1 == pop_int_from_stack(m)
        r2 == pop_int_from_stack(r1.m)
        popped_right == r1.val
        left == r2.val
        \* Negative shift check: right as u32 % 32
        right == IF which_operation >= 8 /\ popped_right < 0
                 THEN LowBits(popped_right, 5) ELSE popped_right
        c == Calculate(which_operation, left, right)
    IN IF r1.res # "ok" THEN r1
       ELSE IF r2.res # "ok" THEN r2
       ELSE IF (which_operation = 3 \/ which_operation = 4) /\ popped_right = 0
            THEN Err(r2.m, "Attempt to divide by zero.")
       ELSE IF c.res = "panic" THEN Panic(r2.m)
       ELSE IF c.res = "bad"
            THEN Err(r2.m, "Binary arithmetic instruction contained bad identifier.")
       ELSE push_int_onto_stack(r2.m, c.val)

unary_arithmetic(m, instruction) ==
    LET r == pop_int_from_stack(m)
        operand == r.val
        which_operation == Field(instruction, 24, 4)
    IN IF r.res # "ok" THEN r
       ELSE IF which_operation = 0
            THEN (IF operand = MinI32
                  THEN (IF overflow_checks THEN Panic(r.m)
                        ELSE push_int_onto_stack(r.m, MinI32))
                  ELSE push_int_onto_stack(r.m, 0 - operand))
       ELSE IF which_operation = 1 THEN push_int_onto_stack(r.m, (0 - 1) - operand)
       ELSE Err(r.m, "Unary arithmetic instruction contained bad identifier.")

\* call that moves the counter before it pushes the return address
call_jump_first(m, instruction) ==
    LET offset == SField(instruction, 2, 26)
        final_offset == offset * 4
        red_addy == m.pc + 4
        jumped == [m EXCEPT !.pc = (m.pc + final_offset) - 4]
        r == push_int_onto_stack(jumped, red_addy)
    IN IF r.res # "ok" THEN r ELSE Ok(r.m, 0)

\* call without the adjustment for the loop's increment
call_unadjusted(m, instruction) ==
    LET offset == SField(instruction, 2, 26)
        final_offset == offset * 4
        red_addy == m.pc + 4
        r == push_int_onto_stack(m, red_addy)
    IN IF r.res # "ok" THEN r
       ELSE Ok([r.m EXCEPT !.pc = m.pc + final_offset], 0)

call(m, instruction) ==
    LET offset == SField(instruction, 2, 26)
        final_offset == offset * 4
        red_addy == m.pc + 4
        r == push_int_onto_stack(m, red_addy)
    IN IF r.res # "ok" THEN r
       ELSE Ok([r.m EXCEPT !.pc = (m.pc + final_offset) - 4], 0)

\* ret that pops the return address before it frees the frame
ret_pop_first(m, instruction) ==
    LET offset == Field(instruction, 2, 26) * 4
        r == pop_int_from_stack(m)
        return_address == r.val
    IN IF r.res # "ok" THEN r
       ELSE IF ~FitsSub(return_address, 4) /\ overflow_checks THEN Panic(r.m)
       ELSE Ok([r.m EXCEPT !.sp = r.m.sp + offset, !.pc = WrapSub(return_address, 4)], 0)

\* ret without the adjustment for the loop's increment
ret_unadjusted(m, instruction) ==
    LET offset == Field(instruction, 2, 26) * 4
        freed == [m EXCEPT !.sp = m.sp + offset]
        r == pop_int_from_stack(freed)
    IN IF r.res # "ok" THEN r ELSE Ok([r.m EXCEPT !.pc = r.val], 0)

ret(m, instruction) ==
    LET offset == Field(instruction, 2, 26) * 4
        freed == [m EXCEPT !.sp = m.sp + offset]
        r == pop_int_from_stack(freed)
        return_address == r.val
    IN IF r.res # "ok" THEN r
       ELSE IF ~FitsSub(return_address, 4) /\ overflow_checks THEN Panic(r.m)
       ELSE Ok([r.m EXCEPT !.pc = WrapSub(return_address, 4)], 0)

\* goto with the 26-bit offset taken as unsigned, without the sign extension
goto_unsigned(m, instruction) ==
    LET offset == Field(instruction, 2, 26)
    IN Ok([m EXCEPT !.pc = (m.pc + (offset * 4)) - 4], 0)

goto(m, instruction) ==
    LET offset == SField(instruction, 2, 26)
    IN Ok([m EXCEPT !.pc = (m.pc + (offset * 4)) - 4], 0)

\* peek_int_from_stack(..).unwrap_or(0): an Err becomes the value 0
UnwrapOr0(r) == IF r.res = "err" THEN [r EXCEPT !.res = "ok", !.err = "", !.val = 0] ELSE r

binary_if(m, instruction) ==
    LET offset == SField(instruction, 0, 25)
        cond == Field(instruction, 25, 4)
        l == UnwrapOr0(peek_int_from_stack(m, 4))
        r == UnwrapOr0(peek_int_from_stack(m, 0))
        lhs == l.val
        rhs == r.val
        result == CASE cond = 0 -> lhs = rhs
                    [] cond = 1 -> lhs # rhs
                    [] cond = 2 -> ULt(lhs, rhs)
                    [] cond = 3 -> ULt(rhs, lhs)
                    [] cond = 4 -> ~ULt(rhs, lhs)
                    [] cond = 5 -> ~ULt(lhs, rhs)
                    [] OTHER -> FALSE
    IN IF l.res = "panic" THEN l
       ELSE IF r.res = "panic" THEN r
       ELSE IF cond > 5 THEN Err(m, "Binary if: faulty instruction.")
       ELSE IF result THEN Ok([m EXCEPT !.pc = (m.pc + offset) - 4], 0)
       ELSE Ok(m, 0)

\* unary-if that pops the word it tests
unary_if_popping(m, instruction) ==
    LET offset == SField(instruction, 0, 25)
        condition == Field(instruction, 25, 2)
        r == pop_int_from_stack(m)
        peek == r.val
        result == CASE condition = 0 -> peek = 0
                    [] condition = 1 -> peek # 0
                    [] condition = 2 -> peek < 0
                    [] condition = 3 -> peek > 0
    IN IF r.res # "ok" THEN r
       ELSE IF result THEN Ok([r.m EXCEPT !.pc = (m.pc + offset) - 4], 0)
       ELSE Ok(r.m, 0)

unary_if(m, instruction) ==
    LET offset == SField(instruction, 0, 25)
        condition == Field(instruction, 25, 2)
        r == peek_int_from_stack(m, 0)
        peek == r.val
        result == CASE condition = 0 -> peek = 0
                    [] condition = 1 -> peek # 0
                    [] condition = 2 -> peek < 0
                    [] condition = 3 -> peek > 0
    IN IF r.res # "ok" THEN r
       ELSE IF result THEN Ok([m EXCEPT !.pc = (m.pc + offset) - 4], 0)
       ELSE Ok(m, 0)

dup(m, instruction) ==
    LET offset == SField(instruction, 0, 28)
        r == peek_int_from_stack(m, offset)
    IN IF r.res # "ok" THEN r
       ELSE push_int_onto_stack(m, r.val)

(***************************************************************************)
(* Output.  stdout is the sequence of bytes written so far; the formatting *)
(* operators produce the ASCII bytes of Rust's {}, {:x}, {:b}, {:o},       *)
(* {:04x}, {:08x} and {:02x}.                                              *)
(***************************************************************************)
HexDigit(d) == IF d < 10 THEN 48 + d ELSE 87 + d

\* {:0nx} of a value that has at most n hex digits
HexFixed(w, n) == [i \in 1 .. n |-> HexDigit(Field(w, 4 * (n - i), 4))]

RECURSIVE StripZeros(_)
\* drop leading '0' digits, keeping the last digit
StripZeros(digits) ==
    IF Len(digits) > 1 /\ digits[1] = 48 THEN StripZeros(Tail(digits)) ELSE digits

\* {:x}, {:b}, {:o} of an i32: the digits of its 32-bit pattern
FormatHex(w) == StripZeros(HexFixed(w, 8))

FormatBin(w) == StripZeros([i \in 1 .. 32 |-> 48 + Field(w, 32 - i, 1)])

FormatOct(w) ==
    StripZeros([i \in 1 .. 11 |-> 48 + (IF i = 1 THEN Field(w, 30, 2) ELSE Field(w, 3 * (11 - i), 3))])

RECURSIVE DecNat(_)
DecNat(n) == IF n < 10 THEN << 48 + n >> ELSE DecNat(n \div 10) \o << 48 + (n % 10) >>

\* {} of an i32
FormatDec(n) ==
    IF n >= 0 THEN DecNat(n)
    ELSE << 45 >> \o (IF TruncDiv(n, 10) = 0 THEN << >> ELSE DecNat(0 - TruncDiv(n, 10)))
                  \o << 48 + (0 - TruncRem(n, 10)) >>

print(m, instruction) ==
    LET shifted == Field(instruction, 2, 26) * 4
        offset == IF Field(instruction, 25, 1) = 1
                  THEN (shifted % Pow2(26)) - Pow2(26) ELSE shifted
        fmt == Field(instruction, 0, 2)
        r == peek_int_from_stack(m, offset)
        val == r.val
        text == CASE fmt = 0 -> FormatDec(val)
                  [] fmt = 1 -> << 48, 120 >> \o FormatHex(val)
                  [] fmt = 2 -> << 48, 98 >> \o FormatBin(val)
                  [] fmt = 3 -> << 48, 111 >> \o FormatOct(val)
    IN IF r.res # "ok" THEN r
       ELSE Ok([m EXCEPT !.out = m.out \o text \o << 10 >>], 0)

\* one line of dump: "{:04x}: {:08x}\n" for the big-endian word at i
DumpLine(mem, i) == HexFixed(i, 4) \o << 58, 32 >> \o HexFixed(BeWord(mem, i), 8) \o << 10 >>

RECURSIVE DumpFrom(_, _)
DumpFrom(mem, i) ==
    IF i >= 4096 \/ i + 4 > MemSize THEN << >> ELSE DumpLine(mem, i) \o DumpFrom(mem, i + 4)

\* a negative stack pointer is a huge usize: the range start..4096 is empty
dump(m) ==
    IF m.sp = 4096 \/ m.sp < 0 THEN Ok(m, 0)
    ELSE Ok([m EXCEPT !.out = m.out \o DumpFrom(m.stack, m.sp)], 0)

\* print_stack: rows of 16 bytes, " {:04x} | " then "  {:02x}" per byte,
\* rows separated by a newline and a newline at the end: 73 bytes per row
print_stack(mem) ==
    [k \in 1 .. (73 * (MemSize \div 16)) |->
        LET row == (k - 1) \div 73
            col == (k - 1) % 73
            head == << 32 >> \o HexFixed(row * 16, 4) \o << 32, 124, 32 >>
            cell == << 32, 32 >> \o HexFixed(mem[(row * 16) + ((col - 8) \div 4)], 2)
        IN IF col < 8 THEN head[col + 1]
           ELSE IF col < 72 THEN cell[((col - 8) % 4) + 1]
           ELSE 10]

\* " - stack pointer:   {}\n - program counter: {}\n"
print_vm_info(m) ==
    << 32, 45, 32, 115, 116, 97, 99, 107, 32, 112, 111, 105, 110, 116, 101, 114, 58, 32, 32, 32 >>
      \o FormatDec(m.sp) \o << 10 >>
      \o << 32, 45, 32, 112, 114, 111, 103, 114, 97, 109, 32, 99, 111, 117, 110, 116, 101, 114, 58, 32 >>
      \o FormatDec(m.pc) \o << 10 >>

\* misc sub-opcode 0xF
debug(m) == Ok([m EXCEPT !.out = m.out \o print_stack(m.stack) \o print_vm_info(m)], 0)

RECURSIVE StprintLoop(_, _, _, _)
\* the print loop of stprint from index i, with last_char_set and the deque d
\* (front first); gives the bytes printed
StprintLoop(mem, i, last_char_set, d) ==
    IF i >= MemSize THEN d
    ELSE LET cur == mem[i]
             last == IF cur = 0 \/ last_char_set # 0 - 1 THEN last_char_set + 1 ELSE last_char_set
             pushed == << cur >> \o d
         IN IF last > 3 THEN d
            ELSE IF cur = 0 \/ cur = 1 THEN StprintLoop(mem, i + 1, last, d)
            ELSE IF Len(pushed) = 3 THEN pushed \o StprintLoop(mem, i + 1, last, << >>)
            ELSE StprintLoop(mem, i + 1, last, pushed)

stprint(m, instruction) ==
    LET stack_offset == SField(instruction, 0, 28)
        start_address == m.sp + stack_offset
    IN IF start_address >= 4096 \/ start_address < 0
       THEN Err(m, "stprint: Offset out of range.")
       ELSE Ok([m EXCEPT !.out = m.out \o StprintLoop(m.stack, start_address, 0 - 1, << >>)], 0)

(***************************************************************************)
(* Input.  A line is the sequence of bytes read_line returns (ASCII).      *)
(***************************************************************************)
IsSpace(c) == c \in {9, 10, 11, 12, 13, 32}

RECURSIVE TrimStart(_)
TrimStart(s) == IF Len(s) > 0 /\ IsSpace(s[1]) THEN TrimStart(Tail(s)) ELSE s

RECURSIVE TrimEnd(_)
TrimEnd(s) ==
    IF Len(s) > 0 /\ IsSpace(s[Len(s)]) THEN TrimEnd(SubSeq(s, 1, Len(s) - 1)) ELSE s

\* str::trim
Trim(s) == TrimEnd(TrimStart(s))

\* str::contains for a two-byte pattern
Contains2(s, a, b) == \E i \in 1 .. (Len(s) - 1) : s[i] = a /\ s[i + 1] = b

\* char::to_digit: the value of a digit, 99 when it is none
DigitValue(c) ==
    IF 48 <= c /\ c <= 57 THEN c - 48
    ELSE IF 97 <= c /\ c <= 122 THEN c - 87
    ELSE IF 65 <= c /\ c <= 90 THEN c - 55
    ELSE 99

RECURSIVE ParseDigits(_, _, _, _)
\* the checked accumulation of i32::from_str_radix: positive numbers are
\* built upward, negative numbers downward
ParseDigits(digits, radix, negative, acc) ==
    IF digits = << >> THEN [ok |-> TRUE, val |-> acc]
    ELSE LET d == DigitValue(digits[1])
         IN IF d >= radix THEN [ok |-> FALSE, val |-> 0]
            ELSE IF ~FitsMul(acc, radix) THEN [ok |-> FALSE, val |-> 0]
            ELSE IF negative /\ ~FitsSub(acc * radix, d) THEN [ok |-> FALSE, val |-> 0]
            ELSE IF ~negative /\ ~FitsAdd(acc * radix, d) THEN [ok |-> FALSE, val |-> 0]
            ELSE ParseDigits(Tail(digits), radix, negative,
                             IF negative THEN (acc * radix) - d ELSE (acc * radix) + d)

\* i32::from_str_radix
from_str_radix(src, radix) ==
    IF src = << >> THEN [ok |-> FALSE, val |-> 0]
    ELSE IF (src[1] = 43 \/ src[1] = 45) /\ Len(src) = 1 THEN [ok |-> FALSE, val |-> 0]
    ELSE IF src[1] = 43 THEN ParseDigits(Tail(src), radix, FALSE, 0)
    ELSE IF src[1] = 45 THEN ParseDigits(Tail(src), radix, TRUE, 0)
    ELSE ParseDigits(src, radix, FALSE, 0)

input(m, line) ==
    LET trimmed == Trim(line)
        convert_response ==
            IF Contains2(trimmed, 48, 120) \/ Contains2(trimmed, 48, 88)
            THEN from_str_radix(SubSeq(trimmed, 3, Len(trimmed)), 16)
            ELSE IF Contains2(trimmed, 48, 98) \/ Contains2(trimmed, 48, 66)
            THEN from_str_radix(SubSeq(trimmed, 3, Len(trimmed)), 2)
            ELSE from_str_radix(trimmed, 10)
    IN IF ~convert_response.ok THEN Err(m, "Bad input.")
       ELSE push_int_onto_stack(m, convert_response.val)

RECURSIVE StinputLoop(_, _, _, _)
\* the chunking loop of stinput over the bytes lo .. hi (1-based), from the
\* loop state st = [cur, byte_index, d] with the deque d front first.  The
\* iterations are taken in order, the range one half after the other: the
\* state after the first half is computed before the second half starts.
StinputLoop(bytes, lo, hi, st) ==
    IF lo > hi THEN st
    ELSE IF lo < hi
    THEN LET mid == (lo + hi) \div 2
             half == StinputLoop(bytes, lo, mid, st)
         IN IF half.byte_index < 3 THEN StinputLoop(bytes, mid + 1, hi, half) ELSE half
    ELSE LET filled == Bits32("or", st.cur, bytes[lo] * Pow2(8 * st.byte_index))
             flagged == IF lo < Len(bytes) THEN Bits32("or", filled, Pow2(24)) ELSE filled
         IN IF st.byte_index + 1 = 3
            THEN [cur |-> 0, byte_index |-> 0, d |-> << flagged >> \o st.d]
            ELSE [cur |-> filled, byte_index |-> st.byte_index + 1, d |-> st.d]

\* the words stinput pushes for a line already trimmed and truncated, in push order
StinputWords(bytes) ==
    LET l == StinputLoop(bytes, 1, Len(bytes), [cur |-> 0, byte_index |-> 0, d |-> << >>])
    IN IF l.byte_index # 3 THEN << l.cur >> \o l.d ELSE l.d

RECURSIVE PushAll(_, _, _, _)
\* for no in d { self.push_int_onto_stack(no)?; } over the words lo .. hi, in
\* order, the range one half after the other
PushAll(m, words, lo, hi) ==
    IF lo > hi THEN Ok(m, 0)
    ELSE IF lo = hi THEN push_int_onto_stack(m, words[lo])
    ELSE LET mid == (lo + hi) \div 2
             r == PushAll(m, words, lo, mid)
         IN IF r.res # "ok" THEN r ELSE PushAll(r.m, words, mid + 1, hi)

stinput(m, instruction, line) ==
    LET shifted == Field(instruction, 0, 24)
        whole == Trim(line)
        trimmed == IF Len(whole) > shifted THEN SubSeq(whole, 1, shifted) ELSE whole
        d == StinputWords(trimmed)
    IN PushAll(m, d, 1, Len(d))

\* execute_instruction: the dispatch on the opcode and the misc sub-opcode;
\* line is what read_line gives to input and stinput
execute_instruction(m, instruction, line) ==
    LET opcode == get_op_code(instruction)
        misc_instruction == Lsr32(instruction, 24)
    IN CASE opcode = 0 ->
              (CASE misc_instruction = 0 -> exit(m, instruction)
                 [] misc_instruction = 1 -> swap(m, instruction)
                 [] misc_instruction = 2 -> Ok(m, 0)
                 [] misc_instruction = 4 -> input(m, line)
                 [] misc_instruction = 5 -> stinput(m, instruction, line)
                 [] misc_instruction = 15 -> debug(m)
                 [] OTHER -> Err(m, "Bad instruction."))
         [] opcode = 1 -> pop(m, instruction)
         [] opcode = 2 -> binary_arithmetic(m, instruction)
         [] opcode = 3 -> unary_arithmetic(m, instruction)
         [] opcode = 4 -> stprint(m, instruction)
         [] opcode = 5 -> call(m, instruction)
         [] opcode = 6 -> ret(m, instruction)
         [] opcode = 7 -> goto(m, instruction)
         [] opcode = 8 -> binary_if(m, instruction)
         [] opcode = 9 -> unary_if(m, instruction)
         [] opcode = 12 -> dup(m, instruction)
         [] opcode = 13 -> print(m, instruction)
         [] opcode = 14 -> dump(m)
         [] opcode = 15 -> push(m, instruction)
         [] OTHER -> Err(m, "Bad instruction.")

(***************************************************************************)
(* Program images and input lines the model runs.                          *)
(***************************************************************************)
MaxProgLen == 2

MaxLineLen == 4

\* all sequences over S of length 0 .. n
SeqsUpTo(S, n) == UNION {[1 .. k -> S] : k \in 0 .. n}

\* the instruction words the enumerated images are built from:
\* push 5, push 0x01020304, pop 4, pop 8, pop 6, call +2, ret 0, ret 4
Alphabet ==
    { W(\hF000, \h0005), W(\hF102, \h0304), W(\h1000, \h0004), W(\h1000, \h0008),
      W(\h1000, \h0006), W(\h5000, \h0008), W(\h6000, \h0000), W(\h6000, \h0004) }

\* an image of 1024 words: first at address 0, then zeros, and the words of
\* tail ending at address 4095
Ending(first, tail) ==
    [i \in 1 .. (MemSize \div 4) |->
        IF i = 1 THEN first
        ELSE IF i > (MemSize \div 4) - Len(tail) THEN tail[i - ((MemSize \div 4) - Len(tail))]
        ELSE 0]

ImmediateExit == << W(\h0000, \h0000) >>

PushAndExit == << W(\hF000, \h0005), W(\h0000, \h0007) >>

\* exit with the payload 0xABCDEF
ExitWide == << W(\h00AB, \hCDEF) >>

GotoLoop == << W(\h7FFF, \hFFFF), W(\h0000, \h0000) >>

\* goto +0: the instruction that jumps to itself
GotoSelf == << W(\h7000, \h0000) >>

\* goto 4092, where the last word of memory holds exit 7
GotoLastWord == Ending(W(\h7000, \h0FFC), << W(\h0000, \h0007) >>)

\* goto 4088, where nop and exit 7 are the last two words of memory
GotoLastTwo == Ending(W(\h7000, \h0FF8), << W(\h0200, \h0000), W(\h0000, \h0007) >>)

\* call +2; exit 1; ret 0
CallRet == << W(\h5000, \h0008), W(\h0000, \h0001), W(\h6000, \h0000) >>

\* push -1; goto -1: pushes until memory is full.  The words pushed over the
\* image read as push -1 too
PushLoop == << W(\hFFFF, \hFFFF), W(\h7FFF, \hFFFC) >>

\* call +0: calls itself until memory is full
CallLoop == << W(\h5000, \h0000) >>

\* push 5 three times; pop 4; pop 8; exit 0
PopFrames ==
    << W(\hF000, \h0005), W(\hF000, \h0005), W(\hF000, \h0005), W(\h1000, \h0004),
       W(\h1000, \h0008), W(\h0000, \h0000) >>

\* push 5; push 5; ret 4: frees a frame of one word, then returns to address 5
FrameRet == << W(\hF000, \h0005), W(\hF000, \h0005), W(\h6000, \h0004) >>

\* push -8; ret 0: returns to a negative address
RetNegative == << W(\hFFFF, \hFFF8), W(\h6000, \h0000) >>

\* push 3; push 4; add; print; dump; neg; not; dup 0; swap 0 1; nop; exit 0
Arithmetic ==
    << W(\hF000, \h0003), W(\hF000, \h0004), W(\h2000, \h0000), W(\hD000, \h0000),
       W(\hE000, \h0000), W(\h3000, \h0000), W(\h3100, \h0000), W(\hC000, \h0000),
       W(\h0100, \h0001), W(\h0200, \h0000), W(\h0000, \h0000) >>

\* push 3; push 4; if lt +8; exit 1; if zero +8; if nonzero +8; exit 2; debug; exit 3
Branches ==
    << W(\hF000, \h0003), W(\hF000, \h0004), W(\h8400, \h0008), W(\h0000, \h0001),
       W(\h9000, \h0008), W(\h9200, \h0008), W(\h0000, \h0002), W(\h0F00, \h0000),
       W(\h0000, \h0003) >>

\* stinput (no limit); stprint 0; exit 0
StringRoundTrip == << W(\h05FF, \hFFFF), W(\h4000, \h0000), W(\h0000, \h0000) >>

\* stinput (at most 2 bytes); stprint 0; exit 0
StringTruncated == << W(\h0500, \h0002), W(\h4000, \h0000), W(\h0000, \h0000) >>

\* input; print; exit 0
ReadNumber == << W(\h0400, \h0000), W(\hD000, \h0000), W(\h0000, \h0000) >>

\* opcode 10 / misc sub-opcode 3
BadOpcode == << W(\hA000, \h0000) >>

BadMisc == << W(\h0300, \h0000) >>

\* the instruction words push v, binary-if cond with byte offset off, and
\* exit with payload code
PushInstr(v) == LowBits(v, 28) - Pow2(28)

BinaryIfInstr(cond, off) == (MinI32 + (cond * Pow2(25))) + LowBits(off, 25)

ExitInstr(code) == code

\* the operands the comparison and arithmetic images push
Operands == {0 - 1, 0, 1, 3}

\* push a; push b; if cond +8; exit 1; exit 2, for every cond of the 3-bit field
CompareImages ==
    { << PushInstr(a), PushInstr(b), BinaryIfInstr(cond, 8), ExitInstr(1), ExitInstr(2) >> :
        a \in Operands, b \in Operands, cond \in 0 .. 7 }

\* the instruction word dup with byte offset off
DupInstr(off) == (0 - Pow2(30)) + LowBits(off, 28)

\* the peeking instructions on a stack too short for them.  On the empty
\* stack: if eq +8, unary-if zero +8, dup 0, print 0, dup -4100; after push 3:
\* if ne +8, dup 4, print 4, dup -4104.  Each is followed by exit 1; exit 2.
PeekImages ==
    { << x, ExitInstr(1), ExitInstr(2) >> :
        x \in { BinaryIfInstr(0, 8), W(\h9000, \h0008), DupInstr(0), W(\hD000, \h0000),
                 DupInstr(0 - 4100) } }
    \cup
    { << PushInstr(3), x, ExitInstr(1), ExitInstr(2) >> :
        x \in { BinaryIfInstr(1, 8), DupInstr(4), W(\hD000, \h0004), DupInstr(0 - 4104) } }

\* instruction words with an unknown opcode or sub-opcode: opcodes 10 and 11,
\* misc 3, 6 and 14, binop 10, 12 and 15, unop 2 and 15
UnknownWords ==
    { W(\hA000, \h0000), W(\hB000, \h0001), W(\h0300, \h0000), W(\h0600, \h0000),
      W(\h0E00, \h0000), W(\h2A00, \h0000), W(\h2C00, \h0000), W(\h2F00, \h0000),
      W(\h3200, \h0000), W(\h3F00, \h0000) }

\* an unknown word executed on the empty stack, on a stack of one word and on
\* a stack of two words; then exit 0
UnknownImages ==
    { prefix \o << x, ExitInstr(0) >> :
        prefix \in { << >>, << PushInstr(3) >>, << PushInstr(3), PushInstr(0 - 1) >> },
        x \in UnknownWords }

\* the instruction words binop and unop with sub-opcode op, and input
BinopInstr(op) == (2 * Pow2(28)) + (op * Pow2(24))

UnopInstr(op) == (3 * Pow2(28)) + (op * Pow2(24))

InputInstr == W(\h0400, \h0000)

\* input; input; binop; exit 0 for every binop sub-opcode up to 11, and
\* input; unop; exit 0: the operands are the numbers read
ArithmeticImages ==
    { << InputInstr, InputInstr, BinopInstr(op), ExitInstr(0) >> : op \in 0 .. 11 }
    \cup { << InputInstr, UnopInstr(op), ExitInstr(0) >> : op \in 0 .. 1 }

\* the instruction words goto and call with word offset k, and unary-if cond
\* with byte offset off
GotoInstr(k) == (7 * Pow2(28)) + (LowBits(k, 26) * 4)

CallInstr(k) == (5 * Pow2(28)) + (LowBits(k, 26) * 4)

UnaryIfInstr(cond, off) == ((MinI32 + Pow2(28)) + (cond * Pow2(25))) + LowBits(off, 25)

\* transfers backwards and forwards: push 1; goto +2; exit 7; unary-if
\* nonzero -4.  goto +2; exit 9; call -1.  push 1; push 1; goto +2; exit 3;
\* if eq -4.  push 1; unary-if nonzero +6; exit 1; exit 2.  push a; unary-if
\* cond +8; exit 1; exit 2, for every cond of the 2-bit field.
TransferImages ==
    { << PushInstr(1), GotoInstr(2), ExitInstr(7), UnaryIfInstr(1, 0 - 4) >>,
      << GotoInstr(2), ExitInstr(9), CallInstr(0 - 1) >>,
      << PushInstr(1), PushInstr(1), GotoInstr(2), ExitInstr(3), BinaryIfInstr(0, 0 - 4) >>,
      << PushInstr(1), UnaryIfInstr(1, 6), ExitInstr(1), ExitInstr(2) >> }
    \cup
    { << PushInstr(a), UnaryIfInstr(cond, 8), ExitInstr(1), ExitInstr(2) >> :
        a \in Operands, cond \in 0 .. 3 }

\* the instruction word ret with frame offset off
RetInstr(off) == (6 * Pow2(28)) + LowBits(off, 28)

\* returns to an address that was read or pushed: input; ret 0.
\* push 12; push 7; ret 4.
ReturnImages ==
    { << InputInstr, RetInstr(0) >>,
      << PushInstr(12), PushInstr(7), RetInstr(4) >> }

\* the instruction word swap with word offsets from and to
SwapInstr(from, to) == (Pow2(24) + (LowBits(from, 12) * Pow2(12))) + LowBits(to, 12)

\* push 3; push -1; swap from to; the same swap again; exit 0.  With
\* SP = 4088 the word offsets address -4, 0 (the first instruction), 4, 4084
\* (free memory), 4088, 4092 and 4096.
SwapImages ==
    LET SwapOffsets == {0 - 1023, 0 - 1022, 0 - 1021, 0 - 1, 0, 1, 2}
    IN { << PushInstr(3), PushInstr(0 - 1), SwapInstr(from, to), SwapInstr(from, to),
            ExitInstr(0) >> : from \in SwapOffsets, to \in SwapOffsets }

\* offsets that are not multiples of 4: push 3; push -1; pop 6; dump; exit 0.
\* push 12; push 7; push 1; ret with the payload 6.
AlignImages ==
    { << PushInstr(3), PushInstr(0 - 1), W(\h1000, \h0006), W(\hE000, \h0000), ExitInstr(0) >>,
      << PushInstr(12), PushInstr(7), PushInstr(1), RetInstr(6) >> }

\* loops that push until memory is full and then run into the words they
\* pushed.  The word 192 reads as dup 0, 0x001000C0 as dup 4096 and
\* 0xFCFFFFCF as dup -4.  push 192; goto -1 ends with a dup 0 at SP = 0.
\* push 192; push 192; push 0x001000C0; goto -3 ends with a dup 4096 at
\* SP = 0.  push 0xFCFFFFCF; goto -1 ends with a dup -4 at SP = 0.
FullImages ==
    { << PushInstr(192), GotoInstr(0 - 1) >>,
      << PushInstr(192), PushInstr(192), PushInstr(W(\h0010, \h00C0)), GotoInstr(0 - 3) >>,
      << PushInstr(W(\hFCFF, \hFFCF)), GotoInstr(0 - 1) >> }

NamedPrograms ==
    { ImmediateExit, PushAndExit, ExitWide, GotoLoop, GotoSelf, GotoLastWord, GotoLastTwo, CallRet,
      PushLoop, CallLoop, PopFrames, FrameRet, RetNegative, Arithmetic, Branches, StringRoundTrip,
      StringTruncated, ReadNumber, BadOpcode, BadMisc }

Programs == NamedPrograms \cup SeqsUpTo(Alphabet, MaxProgLen) \cup CompareImages
              \cup PeekImages
              \cup UnknownImages
              \cup ArithmeticImages
              \cup TransferImages
              \cup ReturnImages
              \cup SwapImages
              \cup AlignImages
              \cup FullImages

\* bytes of the text lines read by stinput: 0x01, space, 'A', 'B'
TextBytes == {1, 32, 65, 66}

\* lines of 3070 bytes, which stinput encodes in 1024 words: 'A' everywhere
\* but in bytes 3..6, where "PAAA" makes the word at address 4 read as a
\* call, U+10000 (F0 90 80 80) as a push and U+00C0 (C3 80) "AA" as a dup
LongLines ==
    { [k \in 1 .. ((3 * (MemSize \div 4)) - 2) |-> IF k >= 4 /\ k <= 7 THEN mid[k - 3] ELSE 65] :
        mid \in { << 80, 65, 65, 65 >>, << 240, 144, 128, 128 >>, << 195, 128, 65, 65 >> } }

StLines == SeqsUpTo(TextBytes, MaxLineLen) \cup LongLines

\* lines read by input: "5", "-1", " 7 ", "0x1f", "0b101", "zz", "",
\* "2147483648", "-2147483648", "10x5", "0", "2147483647", "-31"
InputLines ==
    { << 53 >>, << 45, 49 >>, << 32, 55, 32 >>, << 48, 120, 49, 102 >>,
      << 48, 98, 49, 48, 49 >>, << 122, 122 >>, << >>,
      << 50, 49, 52, 55, 52, 56, 51, 54, 52, 56 >>,
      << 45, 50, 49, 52, 55, 52, 56, 51, 54, 52, 56 >>, << 49, 48, 120, 53 >>,
      << 48 >>, << 50, 49, 52, 55, 52, 56, 51, 54, 52, 55 >>, << 45, 51, 49 >> }

\* read_line: the line and its newline; nothing at end of input
read_line(text) == IF text = << >> THEN << >> ELSE text \o << 10 >>

(***************************************************************************)
(* The machine: build, then the loop of run.                               *)
(***************************************************************************)
Init ==
    /\ image \in Programs
    /\ overflow_checks \in BOOLEAN
    /\ stack = build(image)
    /\ stack_pointer = 4096
    /\ program_counter = 0
    /\ exit_code = 0
    /\ should_exit = FALSE
    /\ status = "running"
    /\ error = ""
    /\ stdout = << >>
    /\ call_log = {}
    /\ word_log = << >>
    /\ ipt = << >>

Running == status = "running"

Fetched == get_next_instruction(stack, program_counter)

Instruction == Fetched.word

\* the arm of execute_instruction taken on the fetched instruction
Dispatch(opcode) == Running /\ ~Fetched.panic /\ get_op_code(Instruction) = opcode

Misc(misc_instruction) == Dispatch(0) /\ Lsr32(Instruction, 24) = misc_instruction

\* increment_program_counter
increment_program_counter(pc) ==
    IF FitsAdd(pc, 4) THEN [panic |-> FALSE, pc |-> pc + 4]
    ELSE IF overflow_checks THEN [panic |-> TRUE, pc |-> pc]
    ELSE [panic |-> FALSE, pc |-> WrapAdd(pc, 4)]

\* run with the handler's Err dropped: the loop goes on to the next instruction
run_ignoring_err(r) ==
    LET inc == increment_program_counter(r.m.pc)
    IN /\ stack' = r.m.stack
       /\ stack_pointer' = r.m.sp
       /\ exit_code' = r.m.exit_code
       /\ should_exit' = r.m.should_exit
       /\ stdout' = r.m.out
       /\ UNCHANGED << overflow_checks, image, word_log >>
       /\ IF r.res = "panic" \/ inc.panic
          THEN status' = "panic" /\ error' = error /\ program_counter' = r.m.pc
          ELSE /\ program_counter' = inc.pc
               /\ error' = error
               /\ status' = IF r.m.should_exit THEN "halted" ELSE "running"

\* The rest of an iteration of run once the handler has given r: an Err ends
\* the run; otherwise the counter is advanced and should_exit ends the loop.
run(r) ==
    LET inc == increment_program_counter(r.m.pc)
    IN /\ stack' = r.m.stack
       /\ stack_pointer' = r.m.sp
       /\ exit_code' = r.m.exit_code
       /\ should_exit' = r.m.should_exit
       /\ stdout' = r.m.out
       /\ UNCHANGED << overflow_checks, image, word_log >>
       /\ IF r.res = "err"
          THEN status' = "error" /\ error' = r.err /\ program_counter' = r.m.pc
          ELSE IF r.res = "panic" \/ inc.panic
          THEN status' = "panic" /\ error' = error /\ program_counter' = r.m.pc
          ELSE /\ program_counter' = inc.pc
               /\ error' = error
               /\ status' = IF r.m.should_exit THEN "halted" ELSE "running"

\* get_next_instruction panics: pc or bound out of range
FetchPanic ==
    /\ Running
    /\ Fetched.panic
    /\ status' = "panic"
    /\ UNCHANGED << stack, stack_pointer, program_counter, exit_code, should_exit,
                    error, stdout, overflow_checks, image, call_log, word_log, ipt >>

ExecExit == Misc(0) /\ run(exit(Machine, Instruction)) /\ UNCHANGED << call_log, ipt >>

ExecSwap == Misc(1) /\ run(swap(Machine, Instruction)) /\ UNCHANGED << call_log, ipt >>

ExecNop == Misc(2) /\ run(Ok(Machine, 0)) /\ UNCHANGED << call_log, ipt >>

ExecInput ==
    /\ Misc(4)
    /\ \E text \in InputLines :
          /\ ipt' = read_line(text)
          /\ run(input(Machine, read_line(text)))
    /\ UNCHANGED call_log

ExecStinput ==
    /\ Misc(5)
    /\ \E text \in StLines :
          /\ ipt' = read_line(text)
          /\ run(stinput(Machine, Instruction, read_line(text)))
    /\ UNCHANGED call_log

ExecDebug == Misc(15) /\ run(debug(Machine)) /\ UNCHANGED << call_log, ipt >>

ExecBadMisc ==
    /\ Dispatch(0)
    /\ Lsr32(Instruction, 24) \notin {0, 1, 2, 4, 5, 15}
    /\ run(Err(Machine, "Bad instruction."))
    /\ UNCHANGED << call_log, ipt >>

ExecPop == Dispatch(1) /\ run(pop(Machine, Instruction)) /\ UNCHANGED << call_log, ipt >>

ExecBinaryArithmetic ==
    Dispatch(2) /\ run(binary_arithmetic(Machine, Instruction)) /\ UNCHANGED << call_log, ipt >>

ExecUnaryArithmetic ==
    Dispatch(3) /\ run(unary_arithmetic(Machine, Instruction)) /\ UNCHANGED << call_log, ipt >>

ExecStprint == Dispatch(4) /\ run(stprint(Machine, Instruction)) /\ UNCHANGED << call_log, ipt >>

ExecCall ==
    /\ Dispatch(5)
    /\ run(call(Machine, Instruction))
    /\ call_log' = IF call(Machine, Instruction).res = "ok"
                   THEN call_log \cup {[p |-> program_counter, s |-> stack_pointer]}
                   ELSE call_log
    /\ UNCHANGED ipt

ExecRet == Dispatch(6) /\ run(ret(Machine, Instruction)) /\ UNCHANGED << call_log, ipt >>

ExecGoto == Dispatch(7) /\ run(goto(Machine, Instruction)) /\ UNCHANGED << call_log, ipt >>

ExecBinaryIf == Dispatch(8) /\ run(binary_if(Machine, Instruction)) /\ UNCHANGED << call_log, ipt >>

ExecUnaryIf == Dispatch(9) /\ run(unary_if(Machine, Instruction)) /\ UNCHANGED << call_log, ipt >>

ExecDup == Dispatch(12) /\ run(dup(Machine, Instruction)) /\ UNCHANGED << call_log, ipt >>

ExecPrint == Dispatch(13) /\ run(print(Machine, Instruction)) /\ UNCHANGED << call_log, ipt >>

ExecDump == Dispatch(14) /\ run(dump(Machine)) /\ UNCHANGED << call_log, ipt >>

ExecPush == Dispatch(15) /\ run(push(Machine, Instruction)) /\ UNCHANGED << call_log, ipt >>

ExecBadOpcode ==
    /\ Running
    /\ ~Fetched.panic
    /\ get_op_code(Instruction) \in {10, 11}
    /\ run(Err(Machine, "Bad instruction."))
    /\ UNCHANGED << call_log, ipt >>

Next ==
    \/ FetchPanic
    \/ ExecExit
    \/ ExecSwap
    \/ ExecNop
    \/ ExecInput
    \/ ExecStinput
    \/ ExecDebug
    \/ ExecBadMisc
    \/ ExecPop
    \/ ExecBinaryArithmetic
    \/ ExecUnaryArithmetic
    \/ ExecStprint
    \/ ExecCall
    \/ ExecRet
    \/ ExecGoto
    \/ ExecBinaryIf
    \/ ExecUnaryIf
    \/ ExecDup
    \/ ExecPrint
    \/ ExecDump
    \/ ExecPush
    \/ ExecBadOpcode

Spec == Init /\ [][Next]_vars

(***************************************************************************)
(* The word access layer on its own: push_int_onto_stack,                  *)
(* pop_int_from_stack, peek_int_from_stack and get_next_instruction        *)
(* applied directly, in any order, to machines that a run of PushLoop      *)
(* reaches.  word_log records each call: the stack pointer before it, its  *)
(* argument, its result and the value it gave.                             *)
(***************************************************************************)
MaxWordOps == 3

\* the stack pointers the machines start with
WordStartSPs == {0, 4, 2048, 4092, 4096}

\* 0x01020304, -1, i32::MIN, 5
SampleWords == {W(\h0102, \h0304), 0 - 1, MinI32, 5}

PeekOffsets == {0, 0 - 4}

\* the memory of the run of PushLoop when its stack pointer is s: the image,
\* and the word -1 in every slot from s upward
PushLoopStack(s) ==
    [i \in 0 .. (MemSize - 1) |-> IF i >= s THEN 255 ELSE build(PushLoop)[i]]

WordInit ==
    /\ image = PushLoop
    /\ overflow_checks \in BOOLEAN
    /\ stack_pointer \in WordStartSPs
    /\ stack = PushLoopStack(stack_pointer)
    /\ program_counter = (IF stack_pointer = 4096 THEN 0 ELSE IF stack_pointer = 0 THEN 8 ELSE 4)
    /\ exit_code = 0
    /\ should_exit = FALSE
    /\ status = "running"
    /\ error = ""
    /\ stdout = << >>
    /\ call_log = {}
    /\ word_log = << >>
    /\ ipt = << >>

Logged(op, arg, r) ==
    /\ Len(word_log) < MaxWordOps
    /\ word_log' = Append(word_log, [op |-> op, arg |-> arg, sp |-> stack_pointer,
                                     res |-> r.res, val |-> r.val])
    /\ stack' = r.m.stack
    /\ stack_pointer' = r.m.sp
    /\ UNCHANGED << program_counter, exit_code, should_exit, status, error, stdout,
                    overflow_checks, image, call_log, ipt >>

PushWord == \E n \in SampleWords : Logged("push", n, push_int_onto_stack(Machine, n))

PopWord == Logged("pop", 0, pop_int_from_stack(Machine))

PeekWord == \E off \in PeekOffsets : Logged("peek", off, peek_int_from_stack(Machine, off))

\* fetch an instruction at the address the stack pointer holds
FetchWord ==
    LET f == get_next_instruction(stack, stack_pointer)
    IN Logged("fetch", stack_pointer,
              [m |-> Machine, res |-> IF f.panic THEN "panic" ELSE "ok", val |-> f.word])

WordNext == PushWord \/ PopWord \/ PeekWord \/ FetchWord

WordSpec == WordInit /\ [][WordNext]_vars

(***************************************************************************)
(* Properties.                                                             *)
(***************************************************************************)
\* the stack pointer and the memory of a machine whose run goes on or has halted
Live == status \in {"running", "halted"}

\* C1: in every state between instructions of a run from a freshly loaded
\* machine, 0 <= SP <= 4096, and the memory array has exactly 4096 bytes
\* (in every state, whatever the outcome of the run).
C1_StackPointerInBounds ==
    /\ DOMAIN stack = 0 .. 4095
    /\ Live => (0 <= stack_pointer /\ stack_pointer <= 4096)

\* push 5; push 5; ret 4 has run: the ret freed a frame of 4 bytes, popped
\* the return address 5 and left the stack empty
C1_Witness ==
    /\ image = FrameRet
    /\ status = "running"
    /\ program_counter = 5
    /\ stack_pointer = 4096

\* C2 as stated: in every state between instructions, PC >= 0.
C2_PcNonNegative == Live => program_counter >= 0

\* C2 as amended: a state between instructions can have PC < 0 (after a
\* goto, call, ret or taken branch), and then nothing more is executed: the
\* next fetch aborts the run and leaves the machine as it is.  So every
\* instruction that is executed was fetched at a PC >= 0.
C2_NegativePcAborts ==
    [][(status = "running" /\ program_counter < 0)
         => (status' = "panic"
             /\ UNCHANGED << stack, stack_pointer, program_counter, exit_code,
                             should_exit, stdout >>)]_vars

\* push -8; ret 0 returned to address -8 and the fetch there aborted
C2_Witness == image = RetNegative /\ status = "panic" /\ program_counter = 0 - 8

\* C3: the fetch succeeds for every PC with 0 <= PC and PC + 4 <= 4096 and
\* is fatal only for the others; an instruction in the last word of memory,
\* at PC = 4092, is fetched.
C3_FetchInRange ==
    Running => (Fetched.panic <=> (program_counter < 0 \/ program_counter > 4092))

\* what the handler of the fetched instruction gives in this step: input and
\* stinput read the line the step records, the other handlers read nothing
HandlerResult == execute_instruction(Machine, Instruction, ipt')

\* C4: when the handler of the fetched instruction returns an error, the run
\* ends with that error at once: PC is not advanced, and nothing is fetched
\* or executed after it (the machine takes no further step); and a run ends
\* with an error only so.
C4_ErrorEndsRun ==
    [][/\ status = "error" => UNCHANGED vars
       /\ (Running /\ ~Fetched.panic /\ HandlerResult.res = "err")
            => (/\ status' = "error"
                /\ program_counter' = program_counter
                /\ error' = HandlerResult.err)
       /\ (Running /\ status' = "error")
            => (/\ ~Fetched.panic
                /\ HandlerResult.res = "err"
                /\ program_counter' = program_counter
                /\ error' = HandlerResult.err)]_vars

\* ret 0 on the empty stack of a fresh machine: the run ended at address 0
C4_Witness ==
    /\ image = << W(\h6000, \h0000) >>
    /\ status = "error"
    /\ error = "Failed to pop: stack is empty."
    /\ program_counter = 0

\* C5: executing an exit instruction sets exit_code to the whole instruction
\* word and sets halt; the loop stops there, nothing more is fetched, and
\* the run returns that exit_code; [0xF0000005, 0x00000007] returns 7.
\* Until an exit instruction is executed halt is false and exit_code is 0.
C5_ExitHalts ==
    [][/\ Misc(0) => (/\ status' = "halted"
                      /\ should_exit'
                      /\ exit_code' = Instruction
                      /\ program_counter' = program_counter + 4)
       /\ ~Misc(0) => (status' # "halted" /\ ~should_exit' /\ exit_code' = 0)
       /\ status = "running" => (~should_exit /\ exit_code = 0)
       /\ status = "halted" => UNCHANGED vars
       /\ (image = PushAndExit /\ program_counter = 4) => (status' = "halted" /\ exit_code' = 7)
       /\ image = PushAndExit => (Live /\ Live')]_vars

C5_Witness == image = PushAndExit /\ status = "halted" /\ exit_code = 7 /\ stack_pointer = 4092

\* C6: for every word n and every state with SP >= 4, push-word(n) followed
\* by pop-word succeeds, returns n and leaves SP as it was before the push.
C6_PushPopRoundTrip ==
    \A i \in 1 .. (Len(word_log) - 1) :
        (word_log[i].op = "push" /\ word_log[i].sp >= 4 /\ word_log[i + 1].op = "pop")
          => (/\ word_log[i].res = "ok"
              /\ word_log[i + 1].res = "ok"
              /\ word_log[i + 1].val = word_log[i].arg
              /\ word_log[i + 1].sp = word_log[i].sp - 4
              /\ (i + 1 = Len(word_log) => stack_pointer = word_log[i].sp))

\* i32::MIN was pushed with SP = 4 and popped again
C6_Witness ==
    /\ Len(word_log) = 2
    /\ word_log[1].op = "push" /\ word_log[1].arg = MinI32 /\ word_log[1].sp = 4
    /\ word_log[2].op = "pop" /\ word_log[2].val = MinI32
    /\ stack_pointer = 4

\* the word with the bytes of n in the opposite order
ByteSwapped(n) == FromBytes(Field(n, 0, 8), Field(n, 8, 8), Field(n, 16, 8), Field(n, 24, 8))

\* C7: push-word(n) stores n big-endian at the new SP (most significant byte
\* first), and an instruction fetch at that address reads the four bytes
\* little-endian: after pushing 0x01020304 the bytes are 01 02 03 04 and the
\* fetch there yields 0x04030201.
C7_EndiannessSplit ==
    \A i \in 1 .. Len(word_log) :
        (word_log[i].op = "push" /\ word_log[i].res = "ok")
          => (/\ (i = Len(word_log)) =>
                    (/\ stack[stack_pointer] = Field(word_log[i].arg, 24, 8)
                     /\ stack[stack_pointer + 1] = Field(word_log[i].arg, 16, 8)
                     /\ stack[stack_pointer + 2] = Field(word_log[i].arg, 8, 8)
                     /\ stack[stack_pointer + 3] = Field(word_log[i].arg, 0, 8))
              /\ (i < Len(word_log) /\ word_log[i + 1].op = "fetch")
                   => (/\ word_log[i + 1].res = "ok"
                       /\ word_log[i + 1].val = ByteSwapped(word_log[i].arg)))

\* C8: the pop instruction with unsigned 28-bit offset off fails if off is
\* not a multiple of 4 (also when SP = 4096); otherwise it leaves SP alone
\* when SP = 4096 and else sets SP to min(SP + off, 4096).  It changes no
\* memory byte, and PC only gets the loop's advance.
C8_PopInstruction ==
    [][Dispatch(1) =>
         LET off == LowBits(Instruction, 28)
         IN /\ stack' = stack
            /\ IF off % 4 # 0
               THEN /\ status' = "error"
                    /\ stack_pointer' = stack_pointer
                    /\ program_counter' = program_counter
               ELSE /\ status' = "running"
                    /\ program_counter' = program_counter + 4
                    /\ stack_pointer' = IF stack_pointer = 4096 THEN 4096
                                        ELSE IF stack_pointer + off > 4096 THEN 4096
                                        ELSE stack_pointer + off]_vars

\* push 5; pop 8 has run: from SP = 4092 the pop stopped at 4096
C8_Witness ==
    /\ image = << W(\hF000, \h0005), W(\h1000, \h0008) >>
    /\ status = "running"
    /\ program_counter = 8
    /\ stack_pointer = 4096

\* C9: a call executed at address p with SP = s >= 4 pushes p + 4; when a
\* ret with zero frame offset is executed while SP = s - 4 and the word at
\* SP is still p + 4, then after the ret and the loop's advance PC = p + 4
\* and SP = s.
C9_CallRetPairing ==
    [][/\ (Dispatch(5) /\ stack_pointer >= 4)
            => (/\ status' = "running"
                /\ stack_pointer' = stack_pointer - 4
                /\ BeWord(stack', stack_pointer') = program_counter + 4
                /\ [p |-> program_counter, s |-> stack_pointer] \in call_log')
       /\ (Dispatch(6) /\ Field(Instruction, 2, 26) = 0)
            => \A c \in call_log :
                  (/\ c.s >= 4
                   /\ stack_pointer = c.s - 4
                   /\ BeWord(stack, stack_pointer) = c.p + 4)
                    => (/\ status' = "running"
                        /\ program_counter' = c.p + 4
                        /\ stack_pointer' = c.s)]_vars

\* call +2; exit 1; ret 0: the ret at 8 has returned to address 4
C9_Witness ==
    /\ image = CallRet
    /\ status = "running"
    /\ call_log = {[p |-> 0, s |-> 4096]}
    /\ program_counter = 4
    /\ stack_pointer = 4096

\* C10 as stated: running [0x7FFFFFFF, 0x00000000], PC is 0 at every fetch
\* and the run never halts and never ends in an error or a fatal abort.
C10_GotoLoopForever == image = GotoLoop => (status = "running" /\ program_counter = 0)

\* C10 as amended: running [0x7FFFFFFF, 0x00000000], the goto at address 0
\* is executed once; its word offset is -1, so with the loop's advance it
\* leaves PC = -4, and the next fetch is a fatal abort.  The run never halts
\* and never returns an error.
C10_GotoLoopAborts ==
    [][image = GotoLoop
         => IF status = "running" /\ program_counter = 0
            THEN status' = "running" /\ program_counter' = 0 - 4
            ELSE /\ status = "running" /\ program_counter = 0 - 4
                 /\ status' = "panic" /\ program_counter' = 0 - 4]_vars

C10_Witness == image = GotoLoop /\ status = "panic" /\ program_counter = 0 - 4

\* the comparison cond of a binary-if, on signed values
SignedHolds(cond, lhs, rhs) ==
    CASE cond = 0 -> lhs = rhs
      [] cond = 1 -> lhs # rhs
      [] cond = 2 -> lhs < rhs
      [] cond = 3 -> lhs > rhs
      [] cond = 4 -> lhs <= rhs
      [] cond = 5 -> lhs >= rhs
      [] OTHER -> FALSE

\* C11: a binary-if executed with two words on the stack compares lhs (the
\* word at SP+4) with rhs (the word at SP) as signed 32-bit values: for cond
\* 0..5 the branch is taken exactly when the signed comparison holds, and
\* cond 6 or 7 fails.
C11_SignedCompare ==
    [][(Dispatch(8) /\ stack_pointer <= 4088) =>
         LET cond == Field(Instruction, 25, 3)
             lhs == BeWord(stack, stack_pointer + 4)
             rhs == BeWord(stack, stack_pointer)
         IN IF cond > 5
            THEN status' = "error"
            ELSE /\ status' = "running"
                 /\ program_counter' = IF SignedHolds(cond, lhs, rhs)
                                        THEN program_counter + SField(Instruction, 0, 25)
                                        ELSE program_counter + 4]_vars

\* the word at address a does not lie entirely inside memory
OutsideMemory(a) == a < 0 \/ a + 4 > 4096

\* the byte offset print peeks at
PrintOffset(instruction) ==
    IF Field(instruction, 25, 1) = 1
    THEN ((Field(instruction, 2, 26) * 4) % Pow2(26)) - Pow2(26)
    ELSE Field(instruction, 2, 26) * 4

\* the run ends in this step with the error of a failed peek
PeekFails ==
    /\ status' = "error"
    /\ error' \in {"Failed to peek: stack is empty", "Failed to peek: offset out of range"}

\* C12: binary-if, unary-if, dup and print fail with the stack-empty error
\* whenever a word they peek does not lie entirely inside memory; binary-if
\* fails when SP > 4088.
C12_PeekOutsideFails ==
    [][/\ (Dispatch(8) /\ (OutsideMemory(stack_pointer + 4) \/ OutsideMemory(stack_pointer)))
            => PeekFails
       /\ (Dispatch(9) /\ OutsideMemory(stack_pointer)) => PeekFails
       /\ (Dispatch(12) /\ OutsideMemory(stack_pointer + SField(Instruction, 0, 28)))
            => PeekFails
       /\ (Dispatch(13) /\ OutsideMemory(stack_pointer + PrintOffset(Instruction)))
            => PeekFails]_vars

\* the fetched word has an unknown opcode or sub-opcode
UnknownInstruction ==
    LET opcode == get_op_code(Instruction)
        sub == Field(Instruction, 24, 4)
    IN \/ opcode \in {10, 11}
       \/ opcode = 0 /\ sub \notin {0, 1, 2, 4, 5, 15}
       \/ opcode = 2 /\ sub \notin (0 .. 9) \cup {11}
       \/ opcode = 3 /\ sub \notin {0, 1}

\* the messages of the bad-instruction error
BadInstructionErrors ==
    { "Bad instruction.", "Binary arithmetic instruction contained bad identifier.",
      "Unary arithmetic instruction contained bad identifier." }

\* C13: in every machine state, a fetched word with an unknown opcode or
\* sub-opcode fails with the bad-instruction error, whatever the stack holds.
C13_UnknownFails ==
    [][(Running /\ ~Fetched.panic /\ UnknownInstruction)
         => (status' = "error" /\ error' \in BadInstructionErrors)]_vars

\* C14: a div or rem executed with at least two words on the stack and the
\* top word (right) equal to 0 fails with the divide-by-zero error for every
\* left operand: no result is pushed (memory is unchanged) and the run ends
\* with that error.
C14_DivideByZero ==
    [][(/\ Dispatch(2)
        /\ Field(Instruction, 24, 4) \in {3, 4}
        /\ stack_pointer <= 4088
        /\ BeWord(stack, stack_pointer) = 0)
         => (/\ status' = "error"
             /\ error' = "Attempt to divide by zero."
             /\ stack' = stack
             /\ program_counter' = program_counter)]_vars

\* input "-2147483648"; input "0"; rem: the run ended with the error
C14_Witness ==
    /\ image = << InputInstr, InputInstr, BinopInstr(4), ExitInstr(0) >>
    /\ status = "error"
    /\ error = "Attempt to divide by zero."
    /\ BeWord(stack, 4092) = MinI32
    /\ BeWord(stack, 4088) = 0

\* the exact result of add, sub or mul reduced modulo 2^32 to a signed value
Wrapped(op, left, right) ==
    CASE op = 0 -> WrapAdd(left, right)
      [] op = 1 -> WrapSub(left, right)
      [] op = 2 -> WrapMul(left, right)

\* C15: for every pair of operands add, sub and mul, and for every operand
\* neg, push the exact result reduced modulo 2^32; a result that does not fit
\* in 32 bits wraps and does not abort the machine.
C15_WrappingArithmetic ==
    [][/\ (Dispatch(2) /\ Field(Instruction, 24, 4) \in 0 .. 2 /\ stack_pointer <= 4088)
            => (/\ status' = "running"
                /\ stack_pointer' = stack_pointer + 4
                /\ BeWord(stack', stack_pointer') =
                      Wrapped(Field(Instruction, 24, 4), BeWord(stack, stack_pointer + 4),
                              BeWord(stack, stack_pointer)))
       /\ (Dispatch(3) /\ Field(Instruction, 24, 4) = 0 /\ stack_pointer <= 4092)
            => (/\ status' = "running"
                /\ stack_pointer' = stack_pointer
                /\ BeWord(stack', stack_pointer') = WrapSub(0, BeWord(stack, stack_pointer)))]_vars

\* C16: for every input line s of non-zero bytes (trimmed, no longer than
\* the maximum of the stinput, and short enough that its words stay clear of
\* the image), stinput followed by stprint with offset 0 emits exactly the
\* bytes of s in their order, with no newline and nothing else.  The images
\* are stinput; stprint 0; exit 0, with no maximum and with the maximum 2.
C16_StringRoundTrip ==
    [][(/\ image \in {StringRoundTrip, StringTruncated}
        /\ Running
        /\ program_counter = 4
        /\ stack_pointer >= 4 * Len(image)
        /\ \A i \in 1 .. Len(Trim(ipt)) : Trim(ipt)[i] # 0
        /\ image = StringTruncated => Len(Trim(ipt)) <= 2)
         => (/\ status' = "running"
             /\ stdout' = stdout \o Trim(ipt))]_vars

\* left OP right for the binop sub-opcode op, on signed 32-bit values with
\* wrapping +, -, * and a shift count reduced modulo 32
BinopResult(op, left, right) ==
    CASE op = 0 -> WrapAdd(left, right)
      [] op = 1 -> WrapSub(left, right)
      [] op = 2 -> WrapMul(left, right)
      [] op = 3 -> TruncDiv(left, right)
      [] op = 4 -> TruncRem(left, right)
      [] op = 5 -> Bits32("and", left, right)
      [] op = 6 -> Bits32("or", left, right)
      [] op = 7 -> Bits32("xor", left, right)
      [] op = 8 -> Shl32(left, LowBits(right, 5))
      [] op = 9 -> Lsr32(left, LowBits(right, 5))
      [] op = 11 -> Asr32(left, LowBits(right, 5))

\* the operand pairs for which op has a result: not a division by zero, not
\* the quotient of i32::MIN by -1, not a shift by 32 or more
BinopDefined(op, left, right) ==
    /\ op \in {3, 4} => (right # 0 /\ ~(left = MinI32 /\ right = 0 - 1))
    /\ op \in {8, 9, 11} => right < 32

\* C17: a binop executed with at least two words on the stack pops the top
\* word as right and the next word as left and pushes left OP right (for sub,
\* left - right): the net effect on SP is +4; push 3; push 4; add leaves 7 on
\* top.
C17_BinopOperands ==
    [][(/\ Dispatch(2)
        /\ stack_pointer <= 4088
        /\ Field(Instruction, 24, 4) \in (0 .. 9) \cup {11}
        /\ BinopDefined(Field(Instruction, 24, 4), BeWord(stack, stack_pointer + 4),
                        BeWord(stack, stack_pointer)))
         => (/\ status' = "running"
             /\ stack_pointer' = stack_pointer + 4
             /\ program_counter' = program_counter + 4
             /\ BeWord(stack', stack_pointer') =
                   BinopResult(Field(Instruction, 24, 4), BeWord(stack, stack_pointer + 4),
                               BeWord(stack, stack_pointer))
             /\ (image = Arithmetic /\ program_counter = 8)
                  => BeWord(stack', stack_pointer') = 7)]_vars

\* C18: for every a and every negative count b = -k, lsl, lsr and asr with
\* count b push the result of the shift by (2^32 - k) mod 32, which is
\* b mod 32 (-1 acts as 31); lsr shifts the unsigned bit pattern (the result
\* of a shift by 1 or more is not negative) and asr preserves the sign.
C18_NegativeShiftCount ==
    [][(/\ Dispatch(2)
        /\ Field(Instruction, 24, 4) \in {8, 9, 11}
        /\ stack_pointer <= 4088
        /\ BeWord(stack, stack_pointer) < 0)
         => LET op == Field(Instruction, 24, 4)
                a == BeWord(stack, stack_pointer + 4)
                count == BeWord(stack, stack_pointer) % 32
                result == BeWord(stack', stack_pointer')
            IN /\ status' = "running"
               /\ stack_pointer' = stack_pointer + 4
               /\ result = BinopResult(op, a, count)
               /\ (op = 9 /\ count >= 1) => result >= 0
               /\ op = 11 => (result < 0 <=> a < 0)
               /\ (op = 11 /\ count <= 30) => result = a \div Pow2(count)]_vars

\* input "-2147483648"; input "-31"; asr has pushed i32::MIN asr 1 = -2^30
C18_Witness ==
    /\ image = << InputInstr, InputInstr, BinopInstr(11), ExitInstr(0) >>
    /\ status = "running"
    /\ program_counter = 12
    /\ ipt = << 45, 51, 49, 10 >>
    /\ stack_pointer = 4092
    /\ BeWord(stack, 4092) = 0 - Pow2(30)

\* C19: control transfers are relative to the address p of the transferring
\* instruction.  After a goto, or a call that can push its return address,
\* with signed 26-bit word offset k, the next fetch address is p + 4k.  After
\* a unary-if on a non-empty stack with signed 25-bit byte offset d it is
\* p + d when the condition holds of the top word and p + 4 when it does not.
\* After a binary-if with a condition code up to 5 it is p + d or p + 4, and
\* for the codes eq and ne on two stacked words it is p + d exactly when the
\* words are equal, respectively different.
UnaryHolds(cond, top) ==
    CASE cond = 0 -> top = 0
      [] cond = 1 -> top # 0
      [] cond = 2 -> top < 0
      [] cond = 3 -> top > 0

C19_TransferTargets ==
    [][LET p == program_counter
           k == SField(Instruction, 2, 26)
           d == SField(Instruction, 0, 25)
       IN /\ (Dispatch(7) \/ (Dispatch(5) /\ stack_pointer >= 4))
                => (status' = "running" /\ program_counter' = p + (4 * k))
          /\ (Dispatch(9) /\ stack_pointer <= 4092)
                => /\ status' = "running"
                   /\ program_counter' =
                        IF UnaryHolds(Field(Instruction, 25, 2), BeWord(stack, stack_pointer))
                        THEN p + d ELSE p + 4
          /\ (Dispatch(8) /\ Field(Instruction, 25, 4) <= 5)
                => /\ status' = "running"
                   /\ program_counter' \in {p + d, p + 4}
                   /\ (Field(Instruction, 25, 4) \in {0, 1} /\ stack_pointer <= 4088)
                        => program_counter' =
                             IF (BeWord(stack, stack_pointer + 4) = BeWord(stack, stack_pointer))
                                  <=> (Field(Instruction, 25, 4) = 0)
                             THEN p + d ELSE p + 4]_vars

C19_Witness ==
    /\ image = << PushInstr(1), GotoInstr(2), ExitInstr(7), UnaryIfInstr(1, 0 - 4) >>
    /\ status = "running"
    /\ program_counter = 8
    /\ stack_pointer = 4092

\* C20: ret with frame offset off, the instruction's bits 27..2 with the low
\* two bits zero.  When SP + off + 4 > 4096 it fails with the error of a pop
\* from the empty stack.  Otherwise it succeeds, unless the build checks
\* overflow and the return address is below i32::MIN + 4; and whenever it
\* succeeds, SP is SP + off + 4 and the next fetch address is the word that
\* was stored at SP + off.
C20_RetFrame ==
    [][Dispatch(6)
         => LET off == Field(Instruction, 0, 28) - Field(Instruction, 0, 2)
                freed == stack_pointer + off
            IN /\ freed + 4 > 4096
                    => (status' = "error" /\ error' = "Failed to pop: stack is empty.")
               /\ status' = "running"
                    => /\ stack_pointer' = freed + 4
                       /\ program_counter' = BeWord(stack, freed)
               /\ (freed + 4 <= 4096
                     /\ ~(overflow_checks /\ BeWord(stack, freed) < MinI32 + 4))
                    => status' = "running"]_vars

C20_Witness ==
    /\ image = << PushInstr(12), PushInstr(7), RetInstr(4) >>
    /\ status = "running"
    /\ program_counter = 12
    /\ stack_pointer = 4096

\* C21: swap with signed 12-bit word offsets from and to.  When both windows
\* [SP + 4*from, +4) and [SP + 4*to, +4) are inside memory, the step succeeds,
\* exchanges the two words, and changes no other byte and not SP, and PC only
\* by the loop's advance; applying the same swap to the result gives back the
\* memory it started from, and in the swap images the second execution of the
\* swap leaves exactly the memory of the two pushes.  When a window is not
\* inside memory, the step fails with the out-of-bounds error and memory, SP
\* and PC are unchanged.
Exchanged(mem, a, b) ==
    [i \in 0 .. (MemSize - 1) |->
        IF i >= a /\ i < a + 4 THEN mem[(i - a) + b]
        ELSE IF i >= b /\ i < b + 4 THEN mem[(i - b) + a]
        ELSE mem[i]]

PushedTwice ==
    [i \in 0 .. (MemSize - 1) |->
        IF i >= 4088 /\ i < 4092 THEN 255
        ELSE IF i = 4095 THEN 3
        ELSE build(image)[i]]

C21_SwapExchanges ==
    [][Misc(1)
         => LET addr_from == stack_pointer + (4 * SField(Instruction, 12, 12))
                addr_to == stack_pointer + (4 * SField(Instruction, 0, 12))
                Inside(addr) == addr >= 0 /\ addr + 4 <= MemSize
            IN IF Inside(addr_from) /\ Inside(addr_to)
               THEN /\ status' = "running"
                    /\ stack' = Exchanged(stack, addr_from, addr_to)
                    /\ stack_pointer' = stack_pointer
                    /\ program_counter' = program_counter + 4
                    /\ swap(Machine', Instruction).m.stack = stack
                    /\ (image \in SwapImages /\ program_counter = 12) => stack' = PushedTwice
               ELSE /\ status' = "error"
                    /\ error' = "swap: address out of bounds"
                    /\ stack' = stack
                    /\ stack_pointer' = stack_pointer
                    /\ program_counter' = program_counter]_vars

C21_Witness ==
    /\ image = << PushInstr(3), PushInstr(0 - 1), SwapInstr(0 - 1022, 1), SwapInstr(0 - 1022, 1),
                  ExitInstr(0) >>
    /\ status = "running"
    /\ program_counter = 16
    /\ stack = PushedTwice

\* C22: a stinput that has room for its words pushes exactly the chunks of
\* the trimmed, truncated line: ceil(n / 3) words for a line of n bytes (one
\* word for the empty line), the chunk of bytes 0..2 at the new SP and each
\* following chunk at the next higher word, the bytes in bits 0..7, 8..15 and
\* 16..23, the top byte 1 in every chunk but the last and 0 in the last, the
\* unused slots of the last chunk zero, and no memory changed outside the
\* pushed words.
C22_StinputChunks ==
    [][Misc(5)
         => LET whole == Trim(ipt')
                max == Field(Instruction, 0, 24)
                bytes == IF Len(whole) > max THEN SubSeq(whole, 1, max) ELSE whole
                n == Len(bytes)
                chunks == IF n = 0 THEN 1 ELSE (n + 2) \div 3
                Slot(k) == IF k <= n THEN bytes[k] ELSE 0
                ChunkWord(j) ==
                    ((Slot((3 * j) + 1) + (Slot((3 * j) + 2) * Pow2(8)))
                       + (Slot((3 * j) + 3) * Pow2(16)))
                       + (IF j < chunks - 1 THEN Pow2(24) ELSE 0)
            IN stack_pointer >= 4 * (chunks + 1)
                 => /\ status' = "running"
                    /\ stack_pointer' = stack_pointer - (4 * chunks)
                    /\ \A j \in 0 .. (chunks - 1) :
                          BeWord(stack', stack_pointer' + (4 * j)) = ChunkWord(j)
                    /\ \A i \in 0 .. (MemSize - 1) :
                          (i < stack_pointer' \/ i >= stack_pointer) => stack'[i] = stack[i]]_vars

\* C23: binary-if, unary-if, print, dump, debug and nop leave SP and every
\* memory byte unchanged, whether the step succeeds, fails, branches or does
\* not branch; they leave the exit code and the exit flag unchanged as well;
\* and print, dump, debug and nop move PC only by the loop's advance.
C23_PeekersKeepStack ==
    [][(Dispatch(8) \/ Dispatch(9) \/ Dispatch(13) \/ Dispatch(14) \/ Misc(15) \/ Misc(2))
         => /\ stack' = stack
            /\ stack_pointer' = stack_pointer
            /\ exit_code' = exit_code
            /\ should_exit' = should_exit
            /\ (~(Dispatch(8) \/ Dispatch(9)) /\ status' = "running")
                 => program_counter' = program_counter + 4
            /\ status' # "running" => program_counter' = program_counter]_vars

C23_Witness ==
    /\ image = << PushInstr(3), UnaryIfInstr(3, 8), ExitInstr(1), ExitInstr(2) >>
    /\ status = "running"
    /\ program_counter = 12
    /\ stack_pointer = 4092
    /\ BeWord(stack, 4092) = 3

\* C24: SP is a multiple of 4 before and after every step, for every program;
\* the two windows of a swap are identical or disjoint; and a dump prints one
\* line of 15 bytes for each of the (4096 - SP) / 4 whole words from SP, the
\* last of them ending exactly at 4096.
C24_StackPointerAligned ==
    [][/\ stack_pointer % 4 = 0
       /\ stack_pointer' % 4 = 0
       /\ Misc(1)
            => LET addr_from == stack_pointer + (4 * SField(Instruction, 12, 12))
                   addr_to == stack_pointer + (4 * SField(Instruction, 0, 12))
               IN addr_from = addr_to \/ addr_from + 4 <= addr_to \/ addr_to + 4 <= addr_from
       /\ Dispatch(14)
            => /\ (MemSize - stack_pointer) % 4 = 0
               /\ Len(stdout') = Len(stdout) + (15 * ((MemSize - stack_pointer) \div 4))]_vars

C24_Witness ==
    /\ image = << PushInstr(12), PushInstr(7), PushInstr(1), RetInstr(6) >>
    /\ status = "running"
    /\ program_counter = 7
    /\ stack_pointer = 4092

\* C25 as stated: a push, dup or call executed with SP < 4 fails with the
\* out-of-memory error and leaves SP, PC and every memory byte as they were.
C25_FullStackOutOfMemory ==
    [][(stack_pointer < 4 /\ (Dispatch(15) \/ Dispatch(12) \/ Dispatch(5)))
         => /\ status' = "error"
            /\ error' = "Out of memory."
            /\ stack' = stack
            /\ stack_pointer' = stack_pointer
            /\ program_counter' = program_counter]_vars

\* C25 amended: a push, dup or call executed with SP < 4 never succeeds and
\* leaves SP, PC and every memory byte as they were.  A push, a call, and a
\* dup whose source word SP + off is inside memory fail with the
\* out-of-memory error.  A dup whose source word is not inside memory stops
\* at its peek instead: with one of the two errors of the peek, or with a
\* panic.
C25_FullStackFails ==
    [][(stack_pointer < 4 /\ (Dispatch(15) \/ Dispatch(12) \/ Dispatch(5)))
         => LET source == stack_pointer + SField(Instruction, 0, 28)
                peeks == Dispatch(12) /\ (source < 0 \/ source + 4 > MemSize)
            IN /\ stack' = stack
               /\ stack_pointer' = stack_pointer
               /\ program_counter' = program_counter
               /\ IF peeks
                  THEN \/ status' = "panic"
                       \/ /\ status' = "error"
                          /\ error' \in {"Failed to peek: stack is empty",
                                         "Failed to peek: offset out of range"}
                  ELSE status' = "error" /\ error' = "Out of memory."]_vars

\* the call that a line of 1024 words leaves at address 4 has failed
C25_Witness ==
    /\ image = StringRoundTrip
    /\ status = "error"
    /\ error = "Out of memory."
    /\ stack_pointer = 0
    /\ program_counter = 4
    /\ stack[7] = 80

====
